---- MODULE Spec2Model ----
(***************************************************************************)
(* A model of src/traitement/export.py: the base-name extractor, the       *)
(* grouper/selector, the classifier and the main pipeline.                 *)
(*                                                                         *)
(* Python strings that the code inspects character by character (index     *)
(* names, creation dates) are sequences of one-character strings; strings  *)
(* the code only compares for equality (patterns, modes, host types) are   *)
(* TLA+ strings.  A Python dict is a function whose DOMAIN is the set of   *)
(* keys present; an insertion-ordered dict of lists is a sequence of       *)
(* [key, value] records.  Objects that the code may alias or mutate live   *)
(* in `heap`, a sequence of dicts addressed by position.                   *)
(***************************************************************************)
EXTENDS Integers, Sequences, FiniteSets, TLC

VARIABLES
    pc,                    \* position in the program / harness
    index_name,            \* argument of extract_index_base_name
    base_name,             \* its result
    base_again,            \* the result of applying it to base_name
    file,                  \* what is at FILE_NAME on disk
    show_raw_dates,        \* args.show_raw_dates
    heap,                  \* the dict objects: input records and their copies
    elastic_indices_data,  \* list of entries, each a dict; "indexes" lists heap ids
    num_latest,            \* argument num_latest
    required_mode,         \* argument required_mode
    required_host_type,    \* argument required_host_type
    processed,             \* result of get_latest_indexes_by_base_name
    analyzed,              \* result of analyze_index_details
    out,                   \* lines printed on standard output (tags)
    calls,                 \* pipeline steps entered so far, in order
    exit_status            \* <<status>> once the process has exited, <<>> before

vars == <<pc, index_name, base_name, base_again, file, show_raw_dates, heap,
          elastic_indices_data, num_latest, required_mode, required_host_type,
          processed, analyzed, out, calls, exit_status>>

----------------------------------------------------------------------------
(* Bounds of the model. *)

\* index names are a prefix, at most MaxSegs suffix-like segments, and a tail
MaxSegs == 2
\* records per pattern entry
MaxIndexes == 3
\* pattern entries in the input list
MaxEntries == 3
\* num_latest ranges over 0..MaxN
MaxN == 2

----------------------------------------------------------------------------
(* Configuration parameters (export.py lines 8-17). *)

NUM_LATEST_INDEXES_PER_BASE_NAME == 2
REQUIRED_INDEX_MODE == "logsdb"
REQUIRED_HOST_NAME_FIELD_TYPE == "keyword"
STATUS_ICON_ALL_MATCH == "ALL-MATCH"
STATUS_ICON_PARTIAL_MATCH == "PARTIAL"
STATUS_ICON_NO_MATCH == "NO-MATCH"

----------------------------------------------------------------------------
(* Characters. *)

\* the characters the regex class \d and int() both accept
AsciiDigit == {"0", "1", "2", "3", "4", "5", "6", "7", "8", "9"}

\* SUPERSCRIPT TWO: str.isdigit() is True for it, \d does not match it and
\* int() rejects it
SuperscriptTwo == "U+00B2"

DigitValue ==
    [c \in AsciiDigit |->
        CASE c = "0" -> 0 [] c = "1" -> 1 [] c = "2" -> 2 [] c = "3" -> 3
          [] c = "4" -> 4 [] c = "5" -> 5 [] c = "6" -> 6 [] c = "7" -> 7
          [] c = "8" -> 8 [] c = "9" -> 9]

Min(S) == CHOOSE x \in S : \A y \in S : x <= y

----------------------------------------------------------------------------
(* extract_index_base_name: re.search of                                   *)
(*   -\d{4}\.\d{2}\.\d{2}-\d{6}(?:-\d+)?$                                  *)
(* and the slice before the match.                                         *)

\* \d at position p of s
DigitAt(s, p) == p \in 1..Len(s) /\ s[p] \in AsciiDigit

\* the mandatory part -\d{4}\.\d{2}\.\d{2}-\d{6} matches s from position i
DateSeqAt(s, i) ==
    /\ i >= 1
    /\ i + 17 <= Len(s)
    /\ s[i] = "-"
    /\ \A k \in 1..4 : DigitAt(s, i + k)
    /\ s[i + 5] = "."
    /\ \A k \in 6..7 : DigitAt(s, i + k)
    /\ s[i + 8] = "."
    /\ \A k \in 9..10 : DigitAt(s, i + k)
    /\ s[i + 11] = "-"
    /\ \A k \in 12..17 : DigitAt(s, i + k)

\* $ without re.MULTILINE: at the end of the string, or just before a
\* newline that is the last character
DollarAt(s, p) ==
    \/ p = Len(s) + 1
    \/ p = Len(s) /\ s[p] = "\n"

\* a pattern without the optional group: -\d{4}\.\d{2}\.\d{2}-\d{6}$
TailMatches_no_counter(s, e) == DollarAt(s, e)

\* the optional group (?:-\d+)? starting at e, followed by $: true when some
\* way of matching it (with a run of digits, or empty) reaches a $
TailMatches(s, e) ==
    \/ /\ e <= Len(s)
       /\ s[e] = "-"
       /\ \E q \in (e + 2)..(Len(s) + 1) :
            /\ \A k \in (e + 1)..(q - 1) : DigitAt(s, k)
            /\ DollarAt(s, q)
    \/ DollarAt(s, e)

\* the whole pattern matches s starting at i
MatchesAt(s, i) == DateSeqAt(s, i) /\ TailMatches(s, i + 18)

\* re.search: the start of the leftmost match (match.start() + 1), 0 for None
re_search(s) ==
    IF \E i \in 1..Len(s) : MatchesAt(s, i)
    THEN Min({i \in 1..Len(s) : MatchesAt(s, i)})
    ELSE 0

extract_index_base_name(index_name_arg) ==
    LET m == re_search(index_name_arg)
    IN  IF m # 0 THEN SubSeq(index_name_arg, 1, m - 1) ELSE index_name_arg

----------------------------------------------------------------------------
(* The index names the extractor is applied to: a prefix, up to MaxSegs    *)
(* pieces that are or resemble a date+sequence suffix, and a tail.         *)

NamePrefixes == {<<>>, <<"a">>, <<"m", "e", "t", "r", "i", "c", "s">>}

NamePieces ==
    { <<"-", "2", "0", "2", "4", ".", "0", "1", ".", "1", "5", "-", "0", "0", "0", "0", "0", "1">>,      \* -2024.01.15-000001
      <<"-", "2", "0", "2", "3", ".", "1", "2", ".", "3", "1", "-", "0", "0", "0", "0", "4", "2">>,      \* -2023.12.31-000042
      <<"-", "2", "0", "2", "4", ".", "0", "1", ".", "1", "5", "-", "0", "0", "0", "0", "1">>,       \* five digits in the sequence
      <<"-", "2", "0", "2", "4", ".", "0", "1", ".", "1", "5", "-", "0", "0", "0", "0", "0", "0", "1">>,     \* seven digits in the sequence
      <<"-", "2", "0", "x", "4", ".", "0", "1", ".", "1", "5", "-", "0", "0", "0", "0", "0", "1">>,      \* a letter in the year
      <<"-", "2", "0", "2", "4", "-", "0", "1", "-", "1", "5", "-", "0", "0", "0", "0", "0", "1">>,      \* dashes for dots
      <<"-", "2">>, <<"-", "2", "3">>, <<"-">>, <<"-", "x">> }

NameTails == {<<>>, <<"\n">>, <<"\n", "\n">>, <<"x">>}

RECURSIVE PieceRuns(_)
PieceRuns(n) ==
    IF n = 0 THEN {<<>>}
    ELSE PieceRuns(n - 1) \cup {r \o p : r \in PieceRuns(n - 1), p \in NamePieces}

IndexNames ==
    {a \o r \o t : a \in NamePrefixes, r \in PieceRuns(MaxSegs), t \in NameTails}

----------------------------------------------------------------------------
(* Python dicts and insertion-ordered dicts of lists. *)

\* not d.get(k): the key is missing or its value is empty
Falsy(d, k) == k \notin DOMAIN d \/ d[k] = <<>>

\* d[k] = v
SetItem(d, k, v) == [x \in DOMAIN d \cup {k} |-> IF x = k THEN v ELSE d[x]]

\* d.get(k, default)
Get(d, k, default) == IF k \in DOMAIN d THEN d[k] ELSE default

\* if k not in od: od[k] = []  followed by  od[k].append(v)
AppendUnder(od, k, v) ==
    IF \E j \in 1..Len(od) : od[j].key = k
    THEN [j \in 1..Len(od) |->
             IF od[j].key = k
             THEN [key |-> k, value |-> Append(od[j].value, v)]
             ELSE od[j]]
    ELSE Append(od, [key |-> k, value |-> <<v>>])

\* every list of an ordered dict, one after the other
RECURSIVE Flatten(_)
Flatten(od) ==
    IF od = <<>> THEN <<>> ELSE od[1].value \o Flatten(Tail(od))

----------------------------------------------------------------------------
(* get_latest_indexes_by_base_name *)

\* str(x).isdigit(): non-empty, and every character has the Unicode digit
\* property (which SUPERSCRIPT TWO has)
isdigit(s) ==
    /\ Len(s) > 0
    /\ \A k \in 1..Len(s) : s[k] \in AsciiDigit \cup {SuperscriptTwo}

\* int(s) raises ValueError: s is not a decimal literal
IntRaises(s) == Len(s) = 0 \/ \E k \in 1..Len(s) : s[k] \notin AsciiDigit

\* int(s) for a decimal literal
RECURSIVE int(_)
int(s) ==
    IF s = <<>> THEN 0
    ELSE 10 * int(SubSeq(s, 1, Len(s) - 1)) + DigitValue[s[Len(s)]]

\* index_copy = index  (no copy: the same object)
dict_alias(h, id) == [heap |-> h, ref |-> id]

\* index.copy(): a new object with the same items
dict_copy(h, id) == [heap |-> Append(h, h[id]), ref |-> Len(h) + 1]

\* lines 107-127: one record of an entry whose pattern is current_index_pattern
GroupIndex(st, current_index_pattern, id) ==
    LET index == st.heap[id] IN
    IF Falsy(index, "index_name") \/ Falsy(index, "index_creation_date")
    THEN st
    ELSE IF ~isdigit(index["index_creation_date"])
    THEN st
    ELSE LET base == extract_index_base_name(index["index_name"])
             cp == dict_copy(st.heap, id)
             h2 == [cp.heap EXCEPT ![cp.ref] =
                       SetItem(@, "original_index_pattern", current_index_pattern)]
         IN  [heap |-> h2, groups |-> AppendUnder(st.groups, base, cp.ref)]

\* lines 106-127: the inner loop
RECURSIVE GroupIndexes(_, _, _)
GroupIndexes(st, current_index_pattern, ids) ==
    IF ids = <<>> THEN st
    ELSE GroupIndexes(GroupIndex(st, current_index_pattern, ids[1]),
                      current_index_pattern, Tail(ids))

\* lines 99-127: the outer loop
RECURSIVE GroupItems(_, _)
GroupItems(st, items) ==
    IF items = <<>> THEN st
    ELSE LET item == items[1]
             indexes_list_from_pattern == Get(item, "indexes", <<>>)
         IN  IF "index_pattern" \notin DOMAIN item \/ item["index_pattern"] = ""
             THEN GroupItems(st, Tail(items))
             ELSE GroupItems(
                      GroupIndexes(st, item["index_pattern"],
                                   indexes_list_from_pattern),
                      Tail(items))

\* the sort key of line 133
SortKey(h, id) == int(h[id]["index_creation_date"])

\* a sort that puts a record before the records of equal date already there
insert_before_equal(h, sorted_ids, id) ==
    LET before == {j \in 1..Len(sorted_ids) :
                      \A k \in 1..j : SortKey(h, sorted_ids[k]) > SortKey(h, id)}
        n == Cardinality(before)
    IN  SubSeq(sorted_ids, 1, n) \o <<id>> \o SubSeq(sorted_ids, n + 1, Len(sorted_ids))

\* a sort in ascending order
insert_ascending(h, sorted_ids, id) ==
    LET before == {j \in 1..Len(sorted_ids) :
                      \A k \in 1..j : SortKey(h, sorted_ids[k]) <= SortKey(h, id)}
        n == Cardinality(before)
    IN  SubSeq(sorted_ids, 1, n) \o <<id>> \o SubSeq(sorted_ids, n + 1, Len(sorted_ids))

\* one step of sorted(..., reverse=True): id goes after every record whose
\* key is greater or equal (the sort is stable, also when reversed)
insert_descending(h, sorted_ids, id) ==
    LET before == {j \in 1..Len(sorted_ids) :
                      \A k \in 1..j : SortKey(h, sorted_ids[k]) >= SortKey(h, id)}
        n == Cardinality(before)
    IN  SubSeq(sorted_ids, 1, n) \o <<id>> \o SubSeq(sorted_ids, n + 1, Len(sorted_ids))

\* sorted(indexes, key=lambda x: int(x["index_creation_date"]), reverse=True)
\* for a list whose keys all parse
RECURSIVE sorted(_, _)
sorted(h, ids) ==
    IF ids = <<>> THEN <<>>
    ELSE insert_descending(h, sorted(h, SubSeq(ids, 1, Len(ids) - 1)), ids[Len(ids)])

\* xs[:n]
slice(xs, n) ==
    IF n >= 0
    THEN SubSeq(xs, 1, IF n < Len(xs) THEN n ELSE Len(xs))
    ELSE SubSeq(xs, 1, IF Len(xs) + n > 0 THEN Len(xs) + n ELSE 0)

\* lines 129-136 for the groups whose keys all parse
Select(h, groups, n) ==
    [j \in 1..Len(groups) |->
        [key |-> groups[j].key, value |-> slice(sorted(h, groups[j].value), n)]]

\* the key function of line 133 raises for some record of some group
SortRaises(h, groups) ==
    \E j \in 1..Len(groups) : \E k \in 1..Len(groups[j].value) :
        IntRaises(h[groups[j].value[k]]["index_creation_date"])

\* the whole function: the heap after the call, whether it raised
\* (ValueError from the sort key), and the value it returned
get_latest_indexes_by_base_name(h, data, n) ==
    LET st == GroupItems([heap |-> h, groups |-> <<>>], data)
    IN  IF SortRaises(st.heap, st.groups)
        THEN [heap |-> st.heap, raised |-> TRUE, value |-> <<>>]
        ELSE [heap |-> st.heap, raised |-> FALSE,
              value |-> Select(st.heap, st.groups, n)]

----------------------------------------------------------------------------
(* analyze_index_details *)

\* the default "N/A" of index.get("index_name", "N/A")
NA_name == <<"N", "/", "A">>

\* a classifier that calls one match out of two a full match
status_icon_either(mode_matches, host_type_matches) ==
    IF mode_matches \/ host_type_matches THEN STATUS_ICON_ALL_MATCH
    ELSE STATUS_ICON_NO_MATCH

\* lines 175-180
status_icon(mode_matches, host_type_matches) ==
    IF mode_matches /\ host_type_matches THEN STATUS_ICON_ALL_MATCH
    ELSE IF mode_matches \/ host_type_matches THEN STATUS_ICON_PARTIAL_MATCH
    ELSE STATUS_ICON_NO_MATCH

\* a classifier that takes a missing field for a compliant one
Classified_missing_matches(index, required_mode_arg, required_host_type_arg) ==
    LET index_mode == Get(index, "index_mode", required_mode_arg)
        host_name_fieldsType ==
            Get(index, "host_name_fieldsType", required_host_type_arg)
    IN  [index_name |-> Get(index, "index_name", NA_name),
         index_mode |-> index_mode,
         host_name_fieldsType |-> host_name_fieldsType,
         status |-> status_icon(index_mode = required_mode_arg,
                                host_name_fieldsType = required_host_type_arg)]

\* lines 167-192: the classified record of one retained index
Classified(index, required_mode_arg, required_host_type_arg) ==
    LET index_mode == Get(index, "index_mode", "N/A")
        host_name_fieldsType == Get(index, "host_name_fieldsType", "N/A")
    IN  [index_name |-> Get(index, "index_name", NA_name),
         index_mode |-> index_mode,
         host_name_fieldsType |-> host_name_fieldsType,
         status |-> status_icon(index_mode = required_mode_arg,
                                host_name_fieldsType = required_host_type_arg)]

\* a lookup of the pattern under a key the grouper never sets
display_key_misspelt(index) == Get(index, "original_pattern", "Unknown_Pattern")

\* line 165: the key a classified record is listed under
display_key(index) == Get(index, "original_index_pattern", "Unknown_Pattern")

\* lines 163-193: the inner loop over one base-name group
RECURSIVE AnalyzeIndexes(_, _, _, _, _, _)
AnalyzeIndexes(grouped, h, base, ids, rm, rh) ==
    IF ids = <<>> THEN grouped
    ELSE AnalyzeIndexes(
             AppendUnder(grouped, display_key(h[ids[1]]),
                         Classified(h[ids[1]], rm, rh)),
             h, base, Tail(ids), rm, rh)

\* lines 160-194
RECURSIVE AnalyzeGroups(_, _, _, _, _)
AnalyzeGroups(grouped, h, groups, rm, rh) ==
    IF groups = <<>> THEN grouped
    ELSE AnalyzeGroups(
             AnalyzeIndexes(grouped, h, groups[1].key, groups[1].value, rm, rh),
             h, Tail(groups), rm, rh)

analyze_index_details(h, processed_indexes_by_base_name, rm, rh) ==
    AnalyzeGroups(<<>>, h, processed_indexes_by_base_name, rm, rh)

----------------------------------------------------------------------------
(* Inputs: lists of pattern entries as json.load builds them.  Every       *)
(* record is an object of its own; the entries list the records by their   *)
(* position in the heap.                                                   *)

Name_a_000001 == <<"a", "-", "2", "0", "2", "4", ".", "0", "1", ".", "1", "5", "-", "0", "0", "0", "0", "0", "1">>
Name_a_000002 == <<"a", "-", "2", "0", "2", "4", ".", "0", "1", ".", "1", "5", "-", "0", "0", "0", "0", "0", "2">>
Name_b == <<"b">>

Rec(n, d, m, ht) ==
    [index_name |-> n, index_creation_date |-> d, index_mode |-> m,
     host_name_fieldsType |-> ht]

Without(d, k) == [x \in DOMAIN d \ {k} |-> d[x]]

\* the choice "the entry has no index_pattern key"
NoPattern == "<no index_pattern>"

RECURSIVE SeqsUpTo(_, _)
SeqsUpTo(S, n) ==
    IF n = 0 THEN {<<>>}
    ELSE SeqsUpTo(S, n - 1) \cup {Append(q, x) : q \in SeqsUpTo(S, n - 1), x \in S}

\* the heap and the entry list of a list of entry descriptions
\* [pat, recs, keyed]: the pattern (or NoPattern), the records, and whether
\* the entry has an "indexes" key at all
RECURSIVE Build(_, _, _)
Build(descs, h, data) ==
    IF descs = <<>> THEN [heap |-> h, data |-> data]
    ELSE LET e == descs[1]
             ids == [j \in 1..Len(e.recs) |-> Len(h) + j]
             d0 == IF e.keyed THEN SetItem(<<>>, "indexes", ids) ELSE <<>>
             item == IF e.pat = NoPattern THEN d0
                     ELSE SetItem(d0, "index_pattern", e.pat)
         IN  Build(Tail(descs), h \o e.recs, Append(data, item))

\* records of one family of indexes and of another, valid and invalid
DeepPool ==
    { Rec(Name_a_000001, <<"5">>, "logsdb", "keyword"),
      Rec(Name_a_000002, <<"1", "2">>, "logsdb", "text"),
      Without(Rec(Name_a_000001, <<"7">>, "", "keyword"), "index_mode"),
      Rec(Name_a_000002, <<"0", "5">>, "standard", "text"),
      Rec(Name_b, <<"7">>, "logsdb", "keyword"),
      Without(Rec(<<>>, <<"7">>, "logsdb", "keyword"), "index_name"),
      Rec(Name_a_000001, <<>>, "logsdb", "keyword"),
      Rec(Name_a_000001, <<"1", "x">>, "logsdb", "keyword"),
      Rec(Name_a_000002, <<SuperscriptTwo>>, "logsdb", "keyword") }

\* one entry with up to MaxIndexes records
DeepEntries ==
    {<<[pat |-> "logs-*", recs |-> r, keyed |-> TRUE]>> :
        r \in SeqsUpTo(DeepPool, MaxIndexes)}

WidePatterns == {NoPattern, "logs-*", "metrics-*"}

WideRecs ==
    { [recs |-> <<>>, keyed |-> FALSE],
      [recs |-> <<Rec(Name_a_000001, <<"5">>, "logsdb", "keyword")>>, keyed |-> TRUE],
      [recs |-> <<Rec(Name_a_000002, <<"7">>, "standard", "keyword")>>, keyed |-> TRUE] }

\* up to MaxEntries entries with one record at most
WideEntries ==
    SeqsUpTo({[pat |-> p, recs |-> w.recs, keyed |-> w.keyed] :
                 p \in WidePatterns, w \in WideRecs}, MaxEntries)

PairPool ==
    { Rec(Name_a_000001, <<"5">>, "logsdb", "keyword"),
      Rec(Name_a_000002, <<"1", "2">>, "standard", "keyword"),
      Rec(Name_b, <<"7">>, "logsdb", "text"),
      Without(Rec(Name_b, <<>>, "logsdb", "text"), "index_creation_date") }

PairEntry ==
    {[pat |-> p, recs |-> r, keyed |-> TRUE] :
        p \in {"", "logs-*", "metrics-*"}, r \in SeqsUpTo(PairPool, 2)}

\* two entries with up to two records each
PairEntries == {<<e1, e2>> : e1 \in PairEntry, e2 \in PairEntry}

Modes == {"logsdb", "standard", "N/A"}
HostTypes == {"keyword", "text", "N/A"}

\* one record with every combination of the two classified fields present
\* or missing, and of two fields the classifier does not read
ClassifyRecs ==
    LET full == {Rec(Name_a_000001, <<"5">>, m, ht) : m \in Modes, ht \in HostTypes}
        less == full \cup {Without(r, "index_mode") : r \in full}
        least == less \cup {Without(r, "host_name_fieldsType") : r \in less}
    IN  least \cup {SetItem(r, "original_index_pattern", "metrics-*") : r \in least}
              \cup {SetItem(r, "status", "ALL-MATCH") : r \in least}

ClassifyEntries ==
    {<<[pat |-> "logs-*", recs |-> <<r>>, keyed |-> TRUE]>> : r \in ClassifyRecs}

\* the calls of the two functions that are checked: the entry descriptions
\* and the three arguments
Calls ==
    {[entries |-> e, n |-> n, rm |-> REQUIRED_INDEX_MODE,
      rh |-> REQUIRED_HOST_NAME_FIELD_TYPE] :
        e \in DeepEntries \cup WideEntries \cup PairEntries, n \in 0..MaxN}
    \cup
    {[entries |-> e, n |-> NUM_LATEST_INDEXES_PER_BASE_NAME, rm |-> rm, rh |-> rh] :
        e \in ClassifyEntries, rm \in Modes, rh \in HostTypes}

----------------------------------------------------------------------------
(* The three programs that are checked: the extractor applied to a name    *)
(* (SpecExtract), the grouper/selector and the classifier called on an     *)
(* entry list (SpecFunctions), and the script run on a file (Spec).        *)

Idle == "idle"

InitExtract ==
    /\ pc = "extract"
    /\ index_name \in IndexNames
    /\ base_name = <<>>
    /\ base_again = <<>>
    /\ file = Idle /\ show_raw_dates = FALSE
    /\ heap = <<>> /\ elastic_indices_data = <<>>
    /\ num_latest = NUM_LATEST_INDEXES_PER_BASE_NAME
    /\ required_mode = REQUIRED_INDEX_MODE
    /\ required_host_type = REQUIRED_HOST_NAME_FIELD_TYPE
    /\ processed = <<>> /\ analyzed = <<>>
    /\ out = <<>> /\ calls = <<>> /\ exit_status = <<>>

\* base_name = extract_index_base_name(index_name)
Extract ==
    /\ pc = "extract"
    /\ base_name' = extract_index_base_name(index_name)
    /\ pc' = "extracted"
    /\ UNCHANGED <<index_name, base_again, file, show_raw_dates, heap,
                   elastic_indices_data, num_latest, required_mode,
                   required_host_type, processed, analyzed, out, calls,
                   exit_status>>

\* the extractor applied to its own result
ExtractAgain ==
    /\ pc = "extracted"
    /\ base_again' = extract_index_base_name(base_name)
    /\ pc' = "extracted_twice"
    /\ UNCHANGED <<index_name, base_name, file, show_raw_dates, heap,
                   elastic_indices_data, num_latest, required_mode,
                   required_host_type, processed, analyzed, out, calls,
                   exit_status>>

NextExtract == Extract \/ ExtractAgain

SpecExtract == InitExtract /\ [][NextExtract]_vars

InitFunctions ==
    /\ pc = "call"
    /\ \E c \in Calls :
          LET b == Build(c.entries, <<>>, <<>>) IN
          /\ heap = b.heap
          /\ elastic_indices_data = b.data
          /\ num_latest = c.n
          /\ required_mode = c.rm
          /\ required_host_type = c.rh
    /\ index_name = <<>> /\ base_name = <<>> /\ base_again = <<>>
    /\ file = Idle /\ show_raw_dates = FALSE
    /\ processed = <<>> /\ analyzed = <<>>
    /\ out = <<>> /\ calls = <<>> /\ exit_status = <<>>

\* processed = get_latest_indexes_by_base_name(elastic_indices_data, num_latest)
CallGetLatest ==
    /\ pc = "call"
    /\ LET r == get_latest_indexes_by_base_name(heap, elastic_indices_data, num_latest)
       IN  /\ heap' = r.heap
           /\ processed' = r.value
           /\ pc' = IF r.raised THEN "raised" ELSE "grouped"
    /\ UNCHANGED <<index_name, base_name, base_again, file, show_raw_dates,
                   elastic_indices_data, num_latest, required_mode,
                   required_host_type, analyzed, out, calls, exit_status>>

\* analyzed = analyze_index_details(processed, required_mode, required_host_type, ...)
CallAnalyze ==
    /\ pc = "grouped"
    /\ analyzed' = analyze_index_details(heap, processed, required_mode,
                                         required_host_type)
    /\ pc' = "analyzed"
    /\ UNCHANGED <<index_name, base_name, base_again, file, show_raw_dates, heap,
                   elastic_indices_data, num_latest, required_mode,
                   required_host_type, processed, out, calls, exit_status>>

NextFunctions == CallGetLatest \/ CallAnalyze

SpecFunctions == InitFunctions /\ [][NextFunctions]_vars

----------------------------------------------------------------------------
(* The extractor's properties. *)

AllDigits(t) == \A k \in 1..Len(t) : t[k] \in AsciiDigit

\* t is -DDDD.DD.DD-DDDDDD
IsDateSeq(t) ==
    /\ Len(t) = 18
    /\ t[1] = "-" /\ AllDigits(SubSeq(t, 2, 5))
    /\ t[6] = "." /\ AllDigits(SubSeq(t, 7, 8))
    /\ t[9] = "." /\ AllDigits(SubSeq(t, 10, 11))
    /\ t[12] = "-" /\ AllDigits(SubSeq(t, 13, 18))

\* t is -DDDD.DD.DD-DDDDDD, optionally followed by -D+
IsSuffix(t) ==
    \/ IsDateSeq(t)
    \/ /\ Len(t) >= 20
       /\ IsDateSeq(SubSeq(t, 1, 18))
       /\ t[19] = "-"
       /\ AllDigits(SubSeq(t, 20, Len(t)))

\* the places where a suffix that ends s starts
SuffixStarts(s) == {k \in 1..Len(s) : IsSuffix(SubSeq(s, k, Len(s)))}

EndsWithSuffix(s) == SuffixStarts(s) # {}

Name_metrics == <<"m", "e", "t", "r", "i", "c", "s">>
Name_metrics_000001 == <<"m", "e", "t", "r", "i", "c", "s", "-", "2", "0", "2", "4", ".", "0", "1", ".", "1", "5", "-", "0", "0", "0", "0", "0", "1">>
Name_metrics_000001_2 == <<"m", "e", "t", "r", "i", "c", "s", "-", "2", "0", "2", "4", ".", "0", "1", ".", "1", "5", "-", "0", "0", "0", "0", "0", "1", "-", "2">>

\* C6: for a name that ends with a suffix -DDDD.DD.DD-DDDDDD(-D+)?, the
\* extractor returns the strict prefix left when that one suffix is cut off
\* the end (name = result + suffix, whichever way the end is read as a
\* suffix), and both "metrics-2024.01.15-000001" and
\* "metrics-2024.01.15-000001-2" give "metrics".
C6_SuffixRemovedOnce ==
    (pc # "extract" /\ EndsWithSuffix(index_name)) =>
        /\ \A k \in SuffixStarts(index_name) :
              base_name = SubSeq(index_name, 1, k - 1)
        /\ Len(base_name) < Len(index_name)
        /\ \E t \in {SubSeq(index_name, k, Len(index_name)) :
                        k \in 1..Len(index_name)} :
              IsSuffix(t) /\ index_name = base_name \o t
        /\ index_name \in {Name_metrics_000001, Name_metrics_000001_2}
              => base_name = Name_metrics

\* a name that ends with two suffixes in a row has lost the last one only
C6_Witness ==
    /\ pc = "extracted"
    /\ EndsWithSuffix(index_name)
    /\ EndsWithSuffix(base_name)
    /\ Len(index_name) - Len(base_name) = 18

\* C7: a name that does not end with the suffix is returned unchanged, and
\* applying the extractor to the result changes nothing.
C7_NoSuffixUnchanged ==
    (pc # "extract" /\ ~EndsWithSuffix(index_name)) =>
        /\ base_name = index_name
        /\ pc = "extracted_twice" => base_again = base_name

----------------------------------------------------------------------------
(* The grouper/selector's properties.  They are stated on the input as the *)
(* caller sees it: the records the entries list, in the order the entries  *)
(* list them.                                                              *)

Returned == pc \in {"grouped", "analyzed"}

\* the entries, and for an entry the records it lists
EntryIds == 1..Len(elastic_indices_data)
IndexesOf(e) == Get(elastic_indices_data[e], "indexes", <<>>)
PatternOf(e) == Get(elastic_indices_data[e], "index_pattern", "")
InputIds == UNION {{IndexesOf(e)[k] : k \in 1..Len(IndexesOf(e))} : e \in EntryIds}
EntryOf(id) == CHOOSE e \in EntryIds : \E k \in 1..Len(IndexesOf(e)) : IndexesOf(e)[k] = id

\* id1 is met before id2 by a reader of the entry list
MetBefore(id1, id2) ==
    \/ EntryOf(id1) < EntryOf(id2)
    \/ /\ EntryOf(id1) = EntryOf(id2)
       /\ \E k1, k2 \in 1..Len(IndexesOf(EntryOf(id1))) :
            /\ k1 < k2
            /\ IndexesOf(EntryOf(id1))[k1] = id1
            /\ IndexesOf(EntryOf(id1))[k2] = id2

HasName(r) == "index_name" \in DOMAIN r /\ r["index_name"] # <<>>
HasDate(r) == "index_creation_date" \in DOMAIN r /\ r["index_creation_date"] # <<>>
DateAllDigits(r) == HasDate(r) /\ AllDigits(r["index_creation_date"])

\* the input records that take part in the ranking
Surviving ==
    {id \in InputIds :
        /\ PatternOf(EntryOf(id)) # ""
        /\ HasName(heap[id])
        /\ DateAllDigits(heap[id])}

BaseOf(id) == extract_index_base_name(heap[id]["index_name"])
DateOf(id) == int(heap[id]["index_creation_date"])

\* a record without the field the grouper adds
Plain(r) == Without(r, "original_index_pattern")

\* the retained records of a returned mapping, group after group
Retained == Flatten(processed)

\* C1: every group of the returned mapping has at most num_latest records,
\* and each record's creation date, as an integer, is greater than or equal
\* to the next record's.
C1_GroupsBoundedAndDescending ==
    Returned =>
        \A j \in 1..Len(processed) :
            LET g == processed[j].value IN
            /\ Len(g) <= num_latest
            /\ \A k \in 1..(Len(g) - 1) : DateOf(g[k]) >= DateOf(g[k + 1])

\* a group that was cut down to num_latest >= 2 records of different dates
C1_Witness ==
    /\ pc = "grouped"
    /\ num_latest >= 2
    /\ \E j \in 1..Len(processed) :
          /\ Len(processed[j].value) = num_latest
          /\ DateOf(processed[j].value[1]) > DateOf(processed[j].value[2])
          /\ Cardinality({id \in Surviving : BaseOf(id) = processed[j].key})
                > num_latest

\* f names, for each retained record of group g, the surviving input record
\* it is the copy of
IsOrigin(f, g, surv) ==
    /\ \A k \in 1..Len(g) : f[k] \in surv /\ Plain(heap[g[k]]) = Plain(heap[f[k]])
    /\ \A k, l \in 1..Len(g) : k # l => f[k] # f[l]

\* C2: the groups are the base names of the surviving records; a group
\* holds min(num_latest, size) of its surviving records; a retained record
\* comes before another when its date is greater, or equal and it was met
\* first in the input; and a dropped record is older than every retained
\* one, or as old and met later.
C2_StableLatestN ==
    Returned =>
        /\ \A j1, j2 \in 1..Len(processed) :
              processed[j1].key = processed[j2].key => j1 = j2
        /\ {processed[j].key : j \in 1..Len(processed)} = {BaseOf(id) : id \in Surviving}
        /\ \A j \in 1..Len(processed) :
              LET g == processed[j].value
                  surv == {id \in Surviving : BaseOf(id) = processed[j].key}
                  size == Cardinality(surv)
              IN  /\ Len(g) = IF num_latest < size THEN num_latest ELSE size
                  /\ \E f \in [1..Len(g) -> surv] :
                        /\ IsOrigin(f, g, surv)
                        /\ \A k, l \in 1..Len(g) :
                              k < l =>
                                \/ DateOf(f[k]) > DateOf(f[l])
                                \/ DateOf(f[k]) = DateOf(f[l]) /\ MetBefore(f[k], f[l])
                        /\ \A d \in surv \ {f[k] : k \in 1..Len(g)} :
                              \A k \in 1..Len(g) :
                                \/ DateOf(d) < DateOf(f[k])
                                \/ DateOf(d) = DateOf(f[k]) /\ MetBefore(f[k], d)

\* two records of equal date and different content were retained in input
\* order while a third record of the group was dropped
C2_Witness ==
    /\ pc = "grouped"
    /\ \E j \in 1..Len(processed) :
          LET g == processed[j].value IN
          /\ Len(g) = 2
          /\ DateOf(g[1]) = DateOf(g[2])
          /\ Plain(heap[g[1]]) # Plain(heap[g[2]])
          /\ Cardinality({id \in Surviving : BaseOf(id) = processed[j].key}) = 3

\* C3: whatever the records are, the grouping returns; no record without a
\* name, without a creation date or with a creation date that is not all
\* digits is in a group; no record of an entry without a pattern is; and the
\* groups hold the records that remain.
C3_DataIssuesNeverRaise ==
    pc # "call" =>
        /\ pc # "raised"
        /\ \A k \in 1..Len(Retained) :
              /\ HasName(heap[Retained[k]])
              /\ DateAllDigits(heap[Retained[k]])
              /\ heap[Retained[k]]["original_index_pattern"] # ""
        /\ {processed[j].key : j \in 1..Len(processed)} = {BaseOf(id) : id \in Surviving}

----------------------------------------------------------------------------
(* The classifier's properties. *)

Statuses == {STATUS_ICON_ALL_MATCH, STATUS_ICON_PARTIAL_MATCH, STATUS_ICON_NO_MATCH}

\* the retained records of pattern p, in the grouper/selector's order
RetainedUnder(p) ==
    LET IsUnder(id) == Get(heap[id], "original_index_pattern", "Unknown_Pattern") = p
    IN  SelectSeq(Retained, IsUnder)

\* the pairs <<retained record, classified record>> at the same place of
\* the same display group
ClassifiedPairs ==
    UNION {
        {<<heap[RetainedUnder(analyzed[j].key)[k]], analyzed[j].value[k]>> :
            k \in 1..Len(analyzed[j].value)} :
        j \in 1..Len(analyzed)}

\* C4: every classified record carries one of the three markers, fixed by
\* the two equality tests alone: ALL-MATCH iff both hold, PARTIAL iff
\* exactly one holds, NO-MATCH iff neither holds, whatever else the retained
\* record contains.
C4_StatusFromTwoTests ==
    pc = "analyzed" =>
        /\ Len(Flatten(analyzed)) = Len(Retained)
        /\ \A pair \in ClassifiedPairs :
              LET r == pair[1]
                  c == pair[2]
                  mode_matches == Get(r, "index_mode", "N/A") = required_mode
                  host_matches ==
                      Get(r, "host_name_fieldsType", "N/A") = required_host_type
              IN  /\ c.status \in Statuses
                  /\ c.status = STATUS_ICON_ALL_MATCH <=> (mode_matches /\ host_matches)
                  /\ c.status = STATUS_ICON_PARTIAL_MATCH <=> (mode_matches # host_matches)
                  /\ c.status = STATUS_ICON_NO_MATCH <=> (~mode_matches /\ ~host_matches)

\* a record whose mode matches and whose host type does not, carrying a
\* status field of its own, was classified PARTIAL
C4_Witness ==
    /\ pc = "analyzed"
    /\ \E pair \in ClassifiedPairs :
          /\ "status" \in DOMAIN pair[1]
          /\ pair[1]["status"] = STATUS_ICON_ALL_MATCH
          /\ "index_mode" \in DOMAIN pair[1]
          /\ pair[1]["index_mode"] = required_mode
          /\ pair[2].status = STATUS_ICON_PARTIAL_MATCH

MissingMode(r) == "index_mode" \notin DOMAIN r
MissingHost(r) == "host_name_fieldsType" \notin DOMAIN r

\* C5 as stated: for all required values, a missing field reads "N/A",
\* "N/A" differs from the required value, and the status is PARTIAL or
\* NO-MATCH.
C5_MissingNeverAllMatch ==
    pc = "analyzed" =>
        \A pair \in ClassifiedPairs :
            LET r == pair[1]
                c == pair[2]
            IN  /\ MissingMode(r) => c.index_mode = "N/A" /\ c.index_mode # required_mode
                /\ MissingHost(r) =>
                      /\ c.host_name_fieldsType = "N/A"
                      /\ c.host_name_fieldsType # required_host_type
                /\ (MissingMode(r) \/ MissingHost(r)) =>
                      c.status \in {STATUS_ICON_PARTIAL_MATCH, STATUS_ICON_NO_MATCH}

\* C5 amended: a missing field reads "N/A"; when the required value of a
\* missing field is not itself "N/A", the field does not match and the
\* status is PARTIAL or NO-MATCH.
C5_MissingNeverAllMatchUnlessNARequired ==
    pc = "analyzed" =>
        \A pair \in ClassifiedPairs :
            LET r == pair[1]
                c == pair[2]
            IN  /\ MissingMode(r) => c.index_mode = "N/A"
                /\ MissingHost(r) => c.host_name_fieldsType = "N/A"
                /\ (MissingMode(r) /\ required_mode # "N/A") =>
                      /\ c.index_mode # required_mode
                      /\ c.status \in {STATUS_ICON_PARTIAL_MATCH, STATUS_ICON_NO_MATCH}
                /\ (MissingHost(r) /\ required_host_type # "N/A") =>
                      /\ c.host_name_fieldsType # required_host_type
                      /\ c.status \in {STATUS_ICON_PARTIAL_MATCH, STATUS_ICON_NO_MATCH}

\* a record without index_mode whose host type matches was classified
\* PARTIAL
C5_Witness ==
    /\ pc = "analyzed"
    /\ required_mode # "N/A"
    /\ \E pair \in ClassifiedPairs :
          /\ MissingMode(pair[1])
          /\ ~MissingHost(pair[1])
          /\ pair[1]["host_name_fieldsType"] = required_host_type
          /\ pair[2].index_mode = "N/A"
          /\ pair[2].status = STATUS_ICON_PARTIAL_MATCH

\* the name and the two classified fields of a retained record
Shown(id) ==
    [index_name |-> heap[id]["index_name"],
     index_mode |-> Get(heap[id], "index_mode", "N/A"),
     host_name_fieldsType |-> Get(heap[id], "host_name_fieldsType", "N/A")]

\* C8: the classified mapping is keyed by the declared patterns of the
\* retained records, each key once; under a pattern stand exactly the
\* retained records of the entries that declare it, once each, in the order
\* of the grouper/selector's output (group after group, and within a group
\* in selection order); a retained record's pattern is the declared pattern
\* of an entry that lists the record it is a copy of.
C8_RegroupedByDeclaredPattern ==
    pc = "analyzed" =>
        /\ \A j1, j2 \in 1..Len(analyzed) :
              analyzed[j1].key = analyzed[j2].key => j1 = j2
        /\ {analyzed[j].key : j \in 1..Len(analyzed)}
              = {heap[Retained[k]]["original_index_pattern"] : k \in 1..Len(Retained)}
        /\ \A j \in 1..Len(analyzed) :
              LET under == RetainedUnder(analyzed[j].key)
                  shown == analyzed[j].value
              IN  /\ Len(shown) = Len(under)
                  /\ \A k \in 1..Len(under) :
                        Without(shown[k], "status") = Shown(under[k])
        /\ \A k \in 1..Len(Retained) :
              \E id \in Surviving :
                  /\ Plain(heap[id]) = Plain(heap[Retained[k]])
                  /\ PatternOf(EntryOf(id)) = heap[Retained[k]]["original_index_pattern"]

\* one pattern shows records of two base names, and one base name has
\* records under two patterns
C8_Witness ==
    /\ pc = "analyzed"
    /\ Len(analyzed) >= 2
    /\ \E j \in 1..Len(analyzed) :
          LET under == RetainedUnder(analyzed[j].key)
          IN  \E k, l \in 1..Len(under) :
                  extract_index_base_name(heap[under[k]]["index_name"])
                      # extract_index_base_name(heap[under[l]]["index_name"])
    /\ \E j \in 1..Len(processed) :
          \E k, l \in 1..Len(processed[j].value) :
              heap[processed[j].value[k]]["original_index_pattern"]
                  # heap[processed[j].value[l]]["original_index_pattern"]

\* C10: the call leaves every object that existed before it as it was, the
\* entry list included; the records of the returned groups are new objects
\* that carry original_index_pattern, the declared pattern of an entry that
\* lists the record they are a copy of.
C10_InputUnchanged ==
    [][pc = "call" =>
          /\ \A id \in 1..Len(heap) : heap'[id] = heap[id]
          /\ elastic_indices_data' = elastic_indices_data
          /\ \A j \in 1..Len(processed') : \A k \in 1..Len(processed'[j].value) :
                LET c == processed'[j].value[k] IN
                /\ c > Len(heap)
                /\ "original_index_pattern" \in DOMAIN heap'[c]
                /\ \E id \in InputIds :
                      /\ Plain(heap[id]) = Plain(heap'[c])
                      /\ PatternOf(EntryOf(id)) = heap'[c]["original_index_pattern"]
      ]_vars

\* a record without original_index_pattern has a retained copy that
\* carries it
C10_Witness ==
    /\ pc = "grouped"
    /\ \E k \in 1..Len(Retained) : \E id \in InputIds :
          /\ "original_index_pattern" \notin DOMAIN heap[id]
          /\ Retained[k] # id
          /\ heap[Retained[k]] =
                SetItem(heap[id], "original_index_pattern", PatternOf(EntryOf(id)))

----------------------------------------------------------------------------
(* The script (lines 262-309) run on a file. *)

\* one printed line: which line it is, the name it shows, its other
\* columns, and for a creation date the instant it shows, in whole seconds
Line(text, name, cols, secs) == [text |-> text, name |-> name, cols |-> cols, secs |-> secs]

\* a loader that reports the error and returns None
load_without_raise(f) ==
    IF f.kind = "missing"
    THEN [raised |-> "none", top |-> "none",
          printed |-> <<Line("Error: file not found", <<>>, <<>>, 0)>>]
    ELSE IF f.kind = "malformed"
    THEN [raised |-> "none", top |-> "none",
          printed |-> <<Line("Error: not a valid JSON", <<>>, <<>>, 0)>>]
    ELSE IF f.kind = "unreadable"
    THEN [raised |-> "OSError", top |-> "none", printed |-> <<>>]
    ELSE [raised |-> "none", top |-> f.top, printed |-> <<>>]

\* lines 70-79: what the loader prints, the exception that leaves it, and
\* the kind of JSON value it returns
load_data_from_json(f) ==
    IF f.kind = "missing"
    THEN [raised |-> "FileNotFoundError", top |-> "none",
          printed |-> <<Line("Error: file not found", <<>>, <<>>, 0)>>]
    ELSE IF f.kind = "malformed"
    THEN [raised |-> "JSONDecodeError", top |-> "none",
          printed |-> <<Line("Error: not a valid JSON", <<>>, <<>>, 0)>>]
    ELSE IF f.kind = "unreadable"
    THEN [raised |-> "OSError", top |-> "none", printed |-> <<>>]
    ELSE [raised |-> "none", top |-> f.top, printed |-> <<>>]

\* lines 30-36: the instant in whole seconds, or "Invalid Date"
get_readable_date(timestamp_ms_str) ==
    IF IntRaises(timestamp_ms_str)
    THEN [valid |-> FALSE, secs |-> 0]
    ELSE [valid |-> TRUE, secs |-> int(timestamp_ms_str) \div 1000]

\* lines 209-214
RawIndexLine(idx) ==
    LET d == get_readable_date(Get(idx, "index_creation_date", NA_name))
    IN  Line(IF d.valid THEN "Index Name" ELSE "Index Name, Invalid Date",
             Get(idx, "index_name", NA_name),
             <<Get(idx, "original_index_pattern", "N/A")>>, d.secs)

\* lines 204-214
RECURSIVE RawGroups(_, _)
RawGroups(h, groups) ==
    IF groups = <<>> THEN <<>>
    ELSE LET g == groups[1] IN
         <<Line("Base Name", g.key, <<>>, 0)>>
         \o (IF g.value = <<>>
             THEN <<Line("(No latest indexes found for this base name)", <<>>, <<>>, 0)>>
             ELSE [k \in 1..Len(g.value) |-> RawIndexLine(h[g.value[k]])])
         \o RawGroups(h, Tail(groups))

\* lines 196-214
print_raw_latest_indexes_by_base_name(h, processed_data_input) ==
    <<Line("--- Latest Indexes per Index Base Name ---", <<>>, <<>>, 0)>>
    \o (IF processed_data_input = <<>>
        THEN <<Line("(No base names with indexes found.)", <<>>, <<>>, 0)>>
        ELSE RawGroups(h, processed_data_input))

\* lines 244-259
RECURSIVE Tables(_)
Tables(grouped) ==
    IF grouped = <<>> THEN <<>>
    ELSE LET t == grouped[1] IN
         <<Line("--- Original Index Pattern ---", <<>>, <<t.key>>, 0)>>
         \o (IF t.value # <<>>
             THEN <<Line("header", <<>>, <<>>, 0), Line("separator", <<>>, <<>>, 0)>>
                  \o [k \in 1..Len(t.value) |->
                         Line("row", t.value[k].index_name,
                              <<t.value[k].index_mode,
                                t.value[k].host_name_fieldsType,
                                t.value[k].status>>, 0)]
             ELSE <<Line("No selected indexes for this original index pattern.",
                         <<>>, <<>>, 0)>>)
         \o Tables(Tail(grouped))

\* lines 217-259
print_formatted_tables_by_pattern(grouped_details_input) ==
    <<Line("--- Tables of Index Details with Status Icons ---", <<>>, <<>>, 0)>>
    \o (IF grouped_details_input = <<>>
        THEN <<Line("No indexes were processed or selected to display.", <<>>, <<>>, 0)>>
        ELSE Tables(grouped_details_input))

\* what can be at FILE_NAME: nothing, text that is not JSON, something that
\* cannot be opened or decoded, a JSON array, a JSON object without
\* "Elasticsearch_indices", and a JSON object whose value list is described
\* by `entries`
File(kind, top, keyed, entries) ==
    [kind |-> kind, top |-> top, keyed |-> keyed, entries |-> entries]

Files ==
    {File("missing", "none", FALSE, <<>>), File("malformed", "none", FALSE, <<>>),
     File("unreadable", "none", FALSE, <<>>), File("json", "array", FALSE, <<>>),
     File("json", "object", FALSE, <<>>)}
    \cup {File("json", "object", TRUE, e) : e \in DeepEntries \cup ClassifyEntries}

Init ==
    /\ pc = "main"
    /\ file \in Files
    /\ show_raw_dates \in BOOLEAN
    /\ heap = <<>> /\ elastic_indices_data = <<>>
    /\ num_latest = NUM_LATEST_INDEXES_PER_BASE_NAME
    /\ required_mode = REQUIRED_INDEX_MODE
    /\ required_host_type = REQUIRED_HOST_NAME_FIELD_TYPE
    /\ processed = <<>> /\ analyzed = <<>>
    /\ out = <<>> /\ calls = <<>> /\ exit_status = <<>>
    /\ index_name = <<>> /\ base_name = <<>> /\ base_again = <<>>

\* line 280
MainLoad ==
    /\ pc = "main"
    /\ LET r == load_data_from_json(file) IN
       /\ out' = out \o r.printed
       /\ pc' = IF r.raised \in {"FileNotFoundError", "JSONDecodeError"}
                THEN "main_except_loader"
                ELSE IF r.raised # "none" THEN "main_except_other"
                ELSE IF r.top = "object" THEN "main_loaded"
                ELSE "main_loaded_no_dict"
    /\ calls' = Append(calls, "load_data_from_json")
    /\ UNCHANGED <<index_name, base_name, base_again, file, show_raw_dates, heap,
                   elastic_indices_data, num_latest, required_mode,
                   required_host_type, processed, analyzed, exit_status>>

\* line 281 when json_data is a dict
MainGetValue ==
    /\ pc = "main_loaded"
    /\ LET b == Build(IF file.keyed THEN file.entries ELSE <<>>, <<>>, <<>>) IN
       /\ heap' = b.heap
       /\ elastic_indices_data' = b.data
    /\ pc' = "main_have_value"
    /\ UNCHANGED <<index_name, base_name, base_again, file, show_raw_dates,
                   num_latest, required_mode, required_host_type, processed,
                   analyzed, out, calls, exit_status>>

\* line 281 when json_data has no get(): AttributeError
MainGetValueFails ==
    /\ pc = "main_loaded_no_dict"
    /\ pc' = "main_except_other"
    /\ UNCHANGED <<index_name, base_name, base_again, file, show_raw_dates, heap,
                   elastic_indices_data, num_latest, required_mode,
                   required_host_type, processed, analyzed, out, calls,
                   exit_status>>

\* line 284
MainGroup ==
    /\ pc = "main_have_value"
    /\ LET r == get_latest_indexes_by_base_name(heap, elastic_indices_data,
                                                NUM_LATEST_INDEXES_PER_BASE_NAME)
       IN  /\ heap' = r.heap
           /\ processed' = r.value
           /\ pc' = IF r.raised THEN "main_except_other" ELSE "main_grouped"
    /\ calls' = Append(calls, "get_latest_indexes_by_base_name")
    /\ UNCHANGED <<index_name, base_name, base_again, file, show_raw_dates,
                   elastic_indices_data, num_latest, required_mode,
                   required_host_type, analyzed, out, exit_status>>

\* lines 287-288
MainRawSummary ==
    /\ pc = "main_grouped"
    /\ show_raw_dates
    /\ out' = out \o print_raw_latest_indexes_by_base_name(heap, processed)
    /\ calls' = Append(calls, "print_raw_latest_indexes_by_base_name")
    /\ pc' = "main_summarised"
    /\ UNCHANGED <<index_name, base_name, base_again, file, show_raw_dates, heap,
                   elastic_indices_data, num_latest, required_mode,
                   required_host_type, processed, analyzed, exit_status>>

\* lines 289-290
MainSkipRaw ==
    /\ pc = "main_grouped"
    /\ ~show_raw_dates
    /\ out' = Append(out, Line("--- Skipping raw index creation date summary ---",
                               <<>>, <<>>, 0))
    /\ pc' = "main_summarised"
    /\ UNCHANGED <<index_name, base_name, base_again, file, show_raw_dates, heap,
                   elastic_indices_data, num_latest, required_mode,
                   required_host_type, processed, analyzed, calls, exit_status>>

\* lines 293-300
MainAnalyze ==
    /\ pc = "main_summarised"
    /\ analyzed' = analyze_index_details(heap, processed, REQUIRED_INDEX_MODE,
                                         REQUIRED_HOST_NAME_FIELD_TYPE)
    /\ calls' = Append(calls, "analyze_index_details")
    /\ pc' = "main_analyzed"
    /\ UNCHANGED <<index_name, base_name, base_again, file, show_raw_dates, heap,
                   elastic_indices_data, num_latest, required_mode,
                   required_host_type, processed, out, exit_status>>

\* line 303
MainPrintTables ==
    /\ pc = "main_analyzed"
    /\ out' = out \o print_formatted_tables_by_pattern(analyzed)
    /\ calls' = Append(calls, "print_formatted_tables_by_pattern")
    /\ pc' = "main_printed"
    /\ UNCHANGED <<index_name, base_name, base_again, file, show_raw_dates, heap,
                   elastic_indices_data, num_latest, required_mode,
                   required_host_type, processed, analyzed, exit_status>>

\* the end of the script
MainFinish ==
    /\ pc = "main_printed"
    /\ exit_status' = <<0>>
    /\ pc' = "exited"
    /\ UNCHANGED <<index_name, base_name, base_again, file, show_raw_dates, heap,
                   elastic_indices_data, num_latest, required_mode,
                   required_host_type, processed, analyzed, out, calls>>

\* lines 305-306
MainExitLoaderError ==
    /\ pc = "main_except_loader"
    /\ exit_status' = <<1>>
    /\ pc' = "exited"
    /\ UNCHANGED <<index_name, base_name, base_again, file, show_raw_dates, heap,
                   elastic_indices_data, num_latest, required_mode,
                   required_host_type, processed, analyzed, out, calls>>

\* lines 307-309
MainExitUnexpected ==
    /\ pc = "main_except_other"
    /\ out' = Append(out, Line("An unexpected error occurred", <<>>, <<>>, 0))
    /\ exit_status' = <<1>>
    /\ pc' = "exited"
    /\ UNCHANGED <<index_name, base_name, base_again, file, show_raw_dates, heap,
                   elastic_indices_data, num_latest, required_mode,
                   required_host_type, processed, analyzed, calls>>

Next ==
    \/ MainLoad
    \/ MainGetValue
    \/ MainGetValueFails
    \/ MainGroup
    \/ MainRawSummary
    \/ MainSkipRaw
    \/ MainAnalyze
    \/ MainPrintTables
    \/ MainFinish
    \/ MainExitLoaderError
    \/ MainExitUnexpected

Spec == Init /\ [][Next]_vars

----------------------------------------------------------------------------
(* The script's properties. *)

LoaderMessage ==
    IF file.kind = "missing"
    THEN Line("Error: file not found", <<>>, <<>>, 0)
    ELSE Line("Error: not a valid JSON", <<>>, <<>>, 0)

\* the steps of a complete run
FullRun ==
    <<"load_data_from_json", "get_latest_indexes_by_base_name">>
    \o (IF show_raw_dates THEN <<"print_raw_latest_indexes_by_base_name">> ELSE <<>>)
    \o <<"analyze_index_details", "print_formatted_tables_by_pattern">>

UnexpectedError ==
    \E k \in 1..Len(out) : out[k].text = "An unexpected error occurred"

\* C9: with the file missing or not valid JSON, the loader's message is the
\* only output, no step after the load is entered, nothing is grouped or
\* classified, and the process exits with status 1; the steps of any run are
\* entered in the order load, group/select, (raw summary), classify, render;
\* a run that loads the file and meets no error enters them all and exits
\* with status 0.
C9_LoadFailureIsTerminal ==
    /\ (file.kind \in {"missing", "malformed"} /\ pc # "main") =>
          /\ pc \in {"main_except_loader", "exited"}
          /\ out = <<LoaderMessage>>
          /\ calls = <<"load_data_from_json">>
          /\ processed = <<>> /\ analyzed = <<>>
          /\ pc = "exited" => exit_status = <<1>>
    /\ \E n \in 0..Len(FullRun) : calls = SubSeq(FullRun, 1, n)
    /\ pc = "exited" <=> exit_status \in {<<0>>, <<1>>}
    /\ (pc = "exited" /\ file.kind = "json" /\ ~UnexpectedError) =>
          /\ exit_status = <<0>>
          /\ calls = FullRun
    /\ (pc = "exited" /\ exit_status = <<0>>) =>
          /\ file.kind = "json"
          /\ ~UnexpectedError

\* the run on a missing file has ended
C9_Witness ==
    /\ pc = "exited"
    /\ file.kind = "missing"
    /\ exit_status = <<1>>
    /\ Len(out) = 1

====
